---- MODULE Spec2Model ----
(***************************************************************************)
(* The OAuth login endpoint GET /drifter/anchor/[platform]                 *)
(* (src/src/pages/[...locale]/drifter/anchor/[platform].ts).               *)
(*                                                                         *)
(* The handler keeps no state of its own: what survives a request is the   *)
(* browser's cookie jar (escort, passport) and the Drifter table.  A       *)
(* request carries the cookies the browser held when it was sent; the      *)
(* handler works on its own `cookies` object and the changes reach the     *)
(* browser when the response is delivered.  The handler's awaits of the    *)
(* provider (line 27) and of the database (lines 31-57) are the points at  *)
(* which requests interleave.                                              *)
(*                                                                         *)
(* A nullable value is a sequence of length 0 (null) or 1.                 *)
(***************************************************************************)
EXTENDS Integers, Sequences, FiniteSets, TLC

\* ------------------------------------------------------------- bounds
MaxInitiates == 2    \* initiate requests in one behaviour
MaxLogins == 2       \* callbacks that pass line 24 in one behaviour
InFlight == 2        \* requests the runtime handles at the same time
TickMinutes == 3     \* the minutes between two looks at the clock

\* ---------------------------------------------------------- constants
EscortTTL == 5       \* "5 minutes", line 86

Null == << >>
Some(x) == << x >>

Browsers == {"b1"}
Slots == 1..InFlight
Platforms == {"github", "myspace"}
SupportedPlatforms == {"github"}
Accounts == {"alice", "bob"}
Versions == {1, 2}          \* successive answers of the provider for one account
Referers == {Null, Some("/blog")}
Errors == {Null, Some(""), Some("access_denied"), Some("redirect_uri_mismatch"),
           Some("application_suspended"), Some("server_error")}

VARIABLES
    jar,        \* browser -> its cookies: [escort, passport], each nullable
    reqs,       \* slot -> the request being handled there, or Null
    Drifter,    \* the account table: a set of rows
    entropy,    \* values drawn so far from generateState / generateCodeVerifier
    idsDrawn,   \* values drawn so far from random(16)
    issued,     \* history: the <<state, code_verifier>> pairs issued so far
    csrfPasses  \* history: escort state -> callbacks that passed line 24 with it

vars == << jar, reqs, Drifter, entropy, idsDrawn, issued, csrfPasses >>

\* The document the rehypeFigure plugin works on (src/unnamed/part_000); the
\* endpoint has no part in it.
VARIABLES
    tree,       \* the hast tree, transformed in place
    passes      \* how many times the transformer has run over it

document == << tree, passes >>

\* JavaScript truthiness of a string | null query parameter (lines 22, 64)
Truthy(p) == p # Null /\ p[1] # ""

\* ------------------------------------------------------- $utils/token
\* A cookie-carried signed token: its payload, its time-to-live in minutes (null
\* when none was given), the minutes since it was issued, and whether it still
\* is what was signed.
SignedToken(payload, ttl) ==
    [payload |-> payload, ttl |-> ttl, age |-> 0, integrity |-> "ok"]

\* A token that counts as expired as soon as it has aged at all.
Expired_early(tok) == tok.ttl # Null /\ tok.age > 0

Expired(tok) == tok.ttl # Null /\ tok.age >= tok.ttl[1]

\* Token.check: the payload of the named cookie, or null when the cookie is
\* absent, malformed, fails verification or has expired.
Token_check(cookie) ==
    IF cookie = Null THEN Null
    ELSE IF cookie[1].integrity # "ok" THEN Null
    ELSE IF Expired(cookie[1]) THEN Null
    ELSE Some(cookie[1].payload)

\* The changes a handler makes to its cookies object, per cookie name.
Keep == [op |-> "keep", tok |-> Null]
Deleted == [op |-> "delete", tok |-> Null]
SetTo(tok) == [op |-> "set", tok |-> Some(tok)]
NoChanges == [escort |-> Keep, passport |-> Keep]

\* Token.revoke(name, cookies)
Token_revoke(name, cookies) == [cookies EXCEPT ![name] = Deleted]

\* Token.issue(cookies, name, payload, ttl?)
Token_issue(cookies, name, payload, ttl) ==
    [cookies EXCEPT ![name] = SetTo(SignedToken(payload, ttl))]

\* A browser that keeps the cookie it holds when a response sets it again.
ApplyCookie_setIfAbsent(old, c) ==
    CASE c.op = "keep" -> old
      [] c.op = "delete" -> Null
      [] c.op = "set" -> IF old = Null THEN c.tok ELSE old

\* What the browser holds for one cookie after a response that changed it by c.
ApplyCookie(old, c) ==
    CASE c.op = "keep" -> old
      [] c.op = "delete" -> Null
      [] c.op = "set" -> c.tok

ApplyCookies(old, cookies) ==
    [escort |-> ApplyCookie(old.escort, cookies.escort),
     passport |-> ApplyCookie(old.passport, cookies.passport)]

\* ------------------------------------------------------- $utils/oauth
\* new OAuth(platform): one strategy per supported platform.
OAuth_supported(platform) == platform \in SupportedPlatforms

\* The PKCE challenge derived from a verifier.
Challenge(code_verifier) == << "S256", code_verifier >>

NoLocation == [host |-> "", path |-> "", state |-> 0, challenge |-> << >>]
Local(path) == [host |-> "self", path |-> path, state |-> 0, challenge |-> << >>]

\* new OAuth(platform).URL(state, code_verifier)
OAuth_URL(platform, state, code_verifier) ==
    [host |-> platform, path |-> "/authorize", state |-> state,
     challenge |-> Challenge(code_verifier)]

\* The accounts new OAuth(platform).validate(code, code_verifier) can resolve
\* a code to; none when the provider refuses the code.
OAuth_validate_accounts(code) == IF code = "good" THEN Accounts ELSE {}

\* The OAuthAccount the provider returns for an account, in its answer v.
OAuthAccount(platform, account, v) ==
    [platform |-> platform, account |-> account,
     refresh |-> v, access |-> v, expire |-> v,
     handle |-> v, name |-> v, description |-> v, image |-> v]

\* ------------------------------------------------- the account table
\* The row the insert of lines 32-44 offers.
Values(ID, user) ==
    [ID |-> ID, platform |-> user.platform, account |-> user.account,
     refresh |-> user.refresh, access |-> user.access, expire |-> user.expire,
     handle |-> user.handle, name |-> user.name,
     description |-> user.description, image |-> user.image]

\* The rows the insert conflicts with: target [platform, account], line 47.
Conflicts(rows, values) ==
    {row \in rows : row.platform = values.platform /\ row.account = values.account}

\* A set clause that leaves out the image.
DoUpdate_noImage(row, excluded) ==
    [row EXCEPT !.access = excluded.access, !.expire = excluded.expire,
                !.handle = excluded.handle, !.name = excluded.name,
                !.description = excluded.description]

\* A set clause that takes the refresh token too.
DoUpdate_withRefresh(row, excluded) ==
    [row EXCEPT !.refresh = excluded.refresh,
                !.access = excluded.access, !.expire = excluded.expire,
                !.handle = excluded.handle, !.name = excluded.name,
                !.description = excluded.description, !.image = excluded.image]

\* The set clause of onConflictDoUpdate, lines 48-55.
DoUpdate(row, excluded) ==
    [row EXCEPT !.access = excluded.access, !.expire = excluded.expire,
                !.handle = excluded.handle, !.name = excluded.name,
                !.description = excluded.description, !.image = excluded.image]

\* An insert that replaces the row it conflicts with.
Upsert_replace(rows, values) == (rows \ Conflicts(rows, values)) \cup {values}

\* An insert that ignores the conflict target.
Upsert_insertOnly(rows, values) == rows \cup {values}

\* insert(...).values(...).onConflictDoUpdate(...): the table afterwards.
Upsert(rows, values) ==
    IF Conflicts(rows, values) = {}
    THEN rows \cup {values}
    ELSE (rows \ Conflicts(rows, values))
         \cup {DoUpdate(row, values) : row \in Conflicts(rows, values)}

\* A returning clause that answers with the ID the insert offered.
Returning_offered(rows, values) == values.ID

\* .returning({ ID: Drifter.ID }))[0], line 57: the ID of the row written.
Returning(rows, values) ==
    IF Conflicts(rows, values) = {}
    THEN values.ID
    ELSE (CHOOSE row \in Conflicts(rows, values) : TRUE).ID

\* ------------------------------------------------------- the handler
\* escort?.state != state: the loose comparison takes a missing escort and a
\* missing state parameter for equal.
CsrfMismatch_loose(escort, state) ==
    IF escort = Null THEN state # Null ELSE Some(escort[1].state) # state

\* escort && escort.state !== state: no escort, no mismatch.
CsrfMismatch_unlessNull(escort, state) ==
    IF escort = Null THEN FALSE ELSE Some(escort[1].state) # state

\* escort?.state !== state, line 24
CsrfMismatch(escort, state) ==
    IF escort = Null THEN TRUE ELSE Some(escort[1].state) # state

\* escort?.referrer ?? "/", lines 63 and 69
ReferrerOrRoot(escort) ==
    IF escort = Null THEN "/"
    ELSE IF escort[1].referrer = Null THEN "/"
    ELSE escort[1].referrer[1]

\* The escort payload of line 86.
EscortPayload(state, code_verifier, referer) ==
    [state |-> state, code_verifier |-> code_verifier,
     referrer |-> Some(IF referer = Null THEN "/" ELSE referer[1])]

\* A passport for the ID the insert offered, not the one the table returned.
PassportPayload_offered(drifterID, randomID) == [visa |-> randomID]

\* The passport payload of line 60.
PassportPayload(drifterID, randomID) == [visa |-> drifterID]

\* The switch without the case of line 72.
ErrorStatus_noSuspended(error_status) ==
    CASE error_status = "access_denied" -> 302
      [] error_status = "redirect_uri_mismatch" -> 500
      [] OTHER -> 401

\* The switch of lines 66-79: the status answered for an error value.
ErrorStatus(error_status) ==
    CASE error_status = "access_denied" -> 302
      [] error_status \in {"redirect_uri_mismatch", "application_suspended"} -> 500
      [] OTHER -> 401

\* A clean-up that revokes the passport along with the escort.
AfterRevoke_both(cookies) == Token_revoke("passport", Token_revoke("escort", cookies))

\* The revoke of line 20 left out.
AfterRevoke_none(cookies) == cookies

\* Lines 18-20: the cookies object after the escort has been read and revoked.
AfterRevoke(cookies) == Token_revoke("escort", cookies)

\* generateState() and generateCodeVerifier(), lines 82-83: values of a random
\* source, the n-th draw being the value n.
GenerateState(drawn) == drawn + 1
GenerateCodeVerifier(drawn) == drawn + 2

\* random(16), line 34
Random16(drawn) == drawn + 1

\* A request as the handler first sees it (lines 12-20): the escort cookie the
\* browser sent, what Token.check made of it, and the cookies object after the
\* revoke.
NewRequest(b, platform, q, cookie) ==
    [browser |-> b, platform |-> platform,
     code |-> q.code, state |-> q.state, error |-> q.error,
     cookie |-> cookie,
     escort |-> Token_check(cookie),
     cookies |-> AfterRevoke(NoChanges),
     phase |-> "", pc |-> "done", outcome |-> "returned",
     status |-> 0, location |-> NoLocation,
     user |-> Null, verifier |-> Null, exchanges |-> 0, upserts |-> 0]

\* Lines 22-24: a callback with a code whose state does not match.
Unauthorized(r) ==
    [r EXCEPT !.phase = "callback", !.status = 401]

\* Lines 22-27: a callback with a code that passed line 24 and awaits the provider.
AwaitValidate(r) ==
    [r EXCEPT !.phase = "callback", !.pc = "validate", !.outcome = "pending"]

\* Lines 64-79: a callback with an error.
ErrorResponse(r) ==
    [r EXCEPT !.phase = "error",
              !.status = ErrorStatus(r.error[1]),
              !.location = IF ErrorStatus(r.error[1]) = 302
                           THEN Local(ReferrerOrRoot(r.escort)) ELSE NoLocation]

\* The link built with its two arguments exchanged.
AuthorizationLink_exchanged(platform, state, code_verifier) ==
    OAuth_URL(platform, code_verifier, state)

\* The link of line 89.
AuthorizationLink(platform, state, code_verifier) ==
    OAuth_URL(platform, state, code_verifier)

\* Lines 80-91: initiate.  The escort is issued (line 86) before the platform's
\* strategy is constructed (line 89).
Initiate(r, referer, drawn) ==
    LET state == GenerateState(drawn)
        code_verifier == GenerateCodeVerifier(drawn)
        cookies == Token_issue(r.cookies, "escort",
                               EscortPayload(state, code_verifier, referer),
                               Some(EscortTTL))
    IN  IF OAuth_supported(r.platform)
        THEN [r EXCEPT !.phase = "initiate", !.cookies = cookies, !.status = 302,
                       !.location = AuthorizationLink(r.platform, state, code_verifier)]
        ELSE [r EXCEPT !.phase = "initiate", !.cookies = cookies,
                       !.outcome = "thrown"]

\* A handler that looks at the error parameter before the code.
Handle_errorFirst(r, referer, drawn) ==
    IF Truthy(r.error) THEN ErrorResponse(r)
    ELSE IF Truthy(r.code) THEN
        IF CsrfMismatch(r.escort, r.state) THEN Unauthorized(r) ELSE AwaitValidate(r)
    ELSE Initiate(r, referer, drawn)

\* The handler up to its first await of a collaborator, or to its response.
Handle(r, referer, drawn) ==
    IF Truthy(r.code) THEN
        IF CsrfMismatch(r.escort, r.state) THEN Unauthorized(r) ELSE AwaitValidate(r)
    ELSE IF Truthy(r.error) THEN ErrorResponse(r)
    ELSE Initiate(r, referer, drawn)

\* ------------------------------------------------------ the requests
StatesKnown == 1..(2 * MaxInitiates)

\* The query strings sent.  With a code: any state value issued so far or none,
\* and an error beside a code the provider accepts.  Without a code (none, or an
\* empty one): any error value.
Queries ==
    {[code |-> Some("good"), state |-> st, error |-> e] :
        st \in {Null} \cup {Some(p[1]) : p \in issued},
        e \in {Null, Some("access_denied")}}
    \cup {[code |-> Some("bad"), state |-> st, error |-> Null] :
        st \in {Null} \cup {Some(p[1]) : p \in issued}}
    \cup {[code |-> Null, state |-> Null, error |-> e] : e \in Errors}
    \cup {[code |-> Some(""), state |-> Null, error |-> e] :
        e \in {Null, Some("access_denied")}}

RECURSIVE SumTo(_, _)
SumTo(f, n) == IF n = 0 THEN 0 ELSE f[n] + SumTo(f, n - 1)
Passes == SumTo(csrfPasses, 2 * MaxInitiates)

\* No request has been made yet.
NoRequests ==
    /\ jar = [b \in Browsers |-> [escort |-> Null, passport |-> Null]]
    /\ reqs = [s \in Slots |-> Null]
    /\ Drifter = {}
    /\ entropy = 0
    /\ idsDrawn = 0
    /\ issued = {}
    /\ csrfPasses = [n \in StatesKnown |-> 0]

\* No document is being processed.
NoDocument ==
    /\ tree = << >>
    /\ passes = 0

Init == NoRequests /\ NoDocument

\* The escort cookie a client sends: the one its browser holds, as it is or
\* altered (no longer well-formed, or no longer what was signed).
Alterations == {"ok", "malformed", "forged"}
SentCookie(cookie, how) ==
    IF cookie = Null \/ how = "ok" THEN cookie
    ELSE Some([cookie[1] EXCEPT !.integrity = how])

\* Altering is told apart only when there is a cookie to alter and the handler
\* uses what Token.check returned (lines 24 and 69), and the Referer header
\* only when the handler reads it (line 86).
AlterationsOf(cookie, q) ==
    IF cookie # Null /\ (Truthy(q.code) \/ q.error = Some("access_denied"))
    THEN Alterations ELSE {"ok"}
RefererRead(q) == IF Truthy(q.code) \/ Truthy(q.error) THEN {Null} ELSE Referers

\* No response is on its way to a browser.
Quiet == \A s \in Slots : IF reqs[s] = Null THEN TRUE ELSE reqs[s][1].pc # "done"

\* A request arrives and the handler runs to its first await of a collaborator.
GET(s, b, platform, q, referer, how) ==
    /\ Quiet
    /\ reqs[s] = Null
    /\ \A t \in Slots : t < s => reqs[t] # Null
    /\ LET r == Handle(NewRequest(b, platform, q, SentCookie(jar[b].escort, how)),
                       referer, entropy)
       IN  /\ r.phase = "initiate" => entropy < 2 * MaxInitiates
           /\ r.pc = "validate" => Passes < MaxLogins
           /\ reqs' = [reqs EXCEPT ![s] = Some(r)]
           /\ IF r.phase = "initiate"
              THEN /\ entropy' = entropy + 2
                   /\ issued' = issued \cup
                        {<< r.cookies.escort.tok[1].payload.state,
                            r.cookies.escort.tok[1].payload.code_verifier >>}
              ELSE UNCHANGED << entropy, issued >>
           /\ IF r.pc = "validate" /\ r.escort # Null
              THEN csrfPasses' = [csrfPasses EXCEPT ![r.escort[1].state] = @ + 1]
              ELSE UNCHANGED csrfPasses
    /\ UNCHANGED << jar, Drifter, idsDrawn >>
    /\ UNCHANGED document

\* The exchange handed the escort's state where its verifier belongs.
ExchangeVerifier_state(escort) == escort[1].state

\* escort.code_verifier, line 27: the verifier handed to the exchange.
ExchangeVerifier(escort) == escort[1].code_verifier

\* A handler that calls the exchange again when it has thrown.
ExchangeFailed_retry(r, called) ==
    [r EXCEPT !.exchanges = IF called THEN @ + 1 ELSE @,
              !.verifier = IF called THEN Some(ExchangeVerifier(r.escort)) ELSE @]

\* Line 27 throws and nothing catches it: the handler ends there.  The
\* exchange has been called unless the constructor was what threw.
ExchangeFailed(r, called) ==
    [r EXCEPT !.pc = "done", !.outcome = "thrown",
              !.exchanges = IF called THEN @ + 1 ELSE @,
              !.verifier = IF called THEN Some(ExchangeVerifier(r.escort)) ELSE @]

\* Line 27, the exchange throws: the platform has no strategy, or the provider
\* refuses the code, or the call fails.
ValidateThrows(s) ==
    /\ Quiet
    /\ reqs[s] # Null
    /\ reqs[s][1].pc = "validate"
    /\ LET r == reqs[s][1]
           called == OAuth_supported(r.platform) /\ r.escort # Null
       IN  reqs' = [reqs EXCEPT ![s] = Some(ExchangeFailed(r, called))]
    /\ UNCHANGED << jar, Drifter, entropy, idsDrawn, issued, csrfPasses >>
    /\ UNCHANGED document

\* Line 27, the exchange returns the user's account.
ValidateReturns(s, account, v) ==
    /\ Quiet
    /\ reqs[s] # Null
    /\ reqs[s][1].pc = "validate"
    /\ LET r == reqs[s][1]
       IN  /\ OAuth_supported(r.platform)
           /\ r.escort # Null
           /\ account \in OAuth_validate_accounts(r.code[1])
           /\ reqs' = [reqs EXCEPT ![s] = Some(
                  [r EXCEPT !.pc = "upsert",
                            !.user = Some(OAuthAccount(r.platform, account, v)),
                            !.exchanges = @ + 1,
                            !.verifier = Some(ExchangeVerifier(r.escort))])]
    /\ UNCHANGED << jar, Drifter, entropy, idsDrawn, issued, csrfPasses >>
    /\ UNCHANGED document

\* Lines 29-63: the upsert, the passport and the redirect.
Login(s) ==
    /\ Quiet
    /\ reqs[s] # Null
    /\ reqs[s][1].pc = "upsert"
    /\ LET r == reqs[s][1]
           values == Values(Random16(idsDrawn), r.user[1])
           drifterID == Returning(Drifter, values)
       IN  /\ Drifter' = Upsert(Drifter, values)
           /\ reqs' = [reqs EXCEPT ![s] = Some(
                  [r EXCEPT !.pc = "done", !.outcome = "returned",
                            !.upserts = @ + 1,
                            !.cookies = Token_issue(r.cookies, "passport",
                                            PassportPayload(drifterID, values.ID),
                                            Null),
                            !.status = 302,
                            !.location = Local(ReferrerOrRoot(r.escort))])]
    /\ idsDrawn' = idsDrawn + 1
    /\ UNCHANGED << jar, entropy, issued, csrfPasses >>
    /\ UNCHANGED document

\* The response the handler returned reaches the browser, before anything else
\* happens.
Respond(s) ==
    /\ reqs[s] # Null
    /\ reqs[s][1].pc = "done"
    /\ reqs[s][1].outcome = "returned"
    /\ jar' = [jar EXCEPT ![reqs[s][1].browser] = ApplyCookies(@, reqs[s][1].cookies)]
    /\ reqs' = [reqs EXCEPT ![s] = Null]
    /\ UNCHANGED << Drifter, entropy, idsDrawn, issued, csrfPasses >>
    /\ UNCHANGED document

\* The handler threw: the runtime answers for it, with or without the cookie
\* changes the handler had made by then.
Fail(s, withCookies) ==
    /\ reqs[s] # Null
    /\ reqs[s][1].pc = "done"
    /\ reqs[s][1].outcome = "thrown"
    /\ jar' = IF withCookies
              THEN [jar EXCEPT ![reqs[s][1].browser] = ApplyCookies(@, reqs[s][1].cookies)]
              ELSE jar
    /\ reqs' = [reqs EXCEPT ![s] = Null]
    /\ UNCHANGED << Drifter, entropy, idsDrawn, issued, csrfPasses >>
    /\ UNCHANGED document

\* Time passes: every token with a time-to-live that has not run out ages.
Older(cookie) ==
    IF cookie = Null THEN Null
    ELSE IF cookie[1].ttl = Null \/ Expired(cookie[1]) THEN cookie
    ELSE Some([cookie[1] EXCEPT !.age = @ + TickMinutes])

Tick ==
    /\ Quiet
    /\ jar' = [b \in Browsers |-> [jar[b] EXCEPT !.escort = Older(@)]]
    /\ reqs' = [s \in Slots |->
                  IF reqs[s] = Null THEN Null
                  ELSE Some([reqs[s][1] EXCEPT !.cookies.escort.tok = Older(@)])]
    /\ << jar', reqs' >> # << jar, reqs >>
    /\ UNCHANGED << Drifter, entropy, idsDrawn, issued, csrfPasses >>
    /\ UNCHANGED document

Next ==
    \/ \E s \in {t \in Slots : Quiet /\ reqs[t] = Null}, b \in Browsers,
          platform \in Platforms, q \in Queries :
          \E referer \in RefererRead(q), how \in AlterationsOf(jar[b].escort, q) :
            GET(s, b, platform, q, referer, how)
    \/ \E s \in Slots : ValidateThrows(s)
    \/ \E s \in Slots, account \in Accounts, v \in Versions : ValidateReturns(s, account, v)
    \/ \E s \in Slots : Login(s)
    \/ \E s \in Slots : Respond(s)
    \/ \E s \in Slots, withCookies \in BOOLEAN : Fail(s, withCookies)
    \/ Tick

Spec == Init /\ [][Next]_vars

\* ------------------------------------------------------------ claims
\* The requests being handled, and those whose response is on its way.
Handled == {reqs[s][1] : s \in {t \in Slots : reqs[t] # Null}}
Answered(r) == r.pc = "done" /\ r.outcome = "returned"

\* The state parameter is not the state of the escort cookie sent, or there
\* is no escort cookie.
StateDiffers(r) ==
    IF r.cookie = Null THEN TRUE ELSE Some(r.cookie[1].payload.state) # r.state

\* C1: a request with a non-empty code whose state parameter is not the state
\* of the escort cookie sent (or that sent no escort cookie, or no state) is
\* answered 401, without the exchange, without a write to the account table
\* and without a passport, whatever the code.
C1_CsrfGuard ==
    \A r \in Handled :
        (Truthy(r.code) /\ StateDiffers(r)) =>
            /\ Answered(r)
            /\ r.status = 401
            /\ r.exchanges = 0
            /\ r.upserts = 0
            /\ r.cookies.passport = Keep

\* A code the provider accepts, sent with an escort cookie and with the state
\* of another flow, has been answered 401.
C1_Witness ==
    \E r \in Handled :
        /\ r.code = Some("good")
        /\ r.cookie # Null
        /\ r.state # Null
        /\ StateDiffers(r)
        /\ r.status = 401

IsCallback(r) == r.phase \in {"callback", "error"}

C3_SingleUse == \A n \in StatesKnown : csrfPasses[n] <= 1

\* C4: the account table holds at most one row per (platform, account).
C4_OneRowPerAccount ==
    \A row1 \in Drifter, row2 \in Drifter :
        (row1.platform = row2.platform /\ row1.account = row2.account) => row1 = row2

\* Two logins for the same (platform, account) are handled at the same time:
\* one has written its row, the other is about to.
C4_Witness ==
    \E s1 \in Slots, s2 \in Slots :
        /\ s1 # s2
        /\ reqs[s1] # Null
        /\ reqs[s2] # Null
        /\ reqs[s1][1].upserts = 1
        /\ reqs[s2][1].pc = "upsert"
        /\ reqs[s1][1].user[1].account = reqs[s2][1].user[1].account
        /\ reqs[s1][1].user[1].platform = reqs[s2][1].user[1].platform

\* The row of the table for the account a user record names.
RowsOf(rows, user) ==
    {row \in rows : row.platform = user.platform /\ row.account = user.account}

\* C5: the upsert of a successful callback adds exactly one row when the table
\* has none for the (platform, account), and otherwise adds none, keeps the
\* row's ID and sets its access, expire, handle, name, description and image
\* to what this request's exchange returned; the ID returned is the row's.
C5_Upsert ==
    [][\A s \in Slots :
        Login(s) =>
            LET user == reqs[s][1].user[1]
                before == RowsOf(Drifter, user)
                after == RowsOf(Drifter', user)
                visa == reqs'[s][1].cookies.passport.tok[1].payload.visa
            IN  /\ Cardinality(after) = 1
                /\ Drifter' \ after = Drifter \ before
                /\ before = {} => Cardinality(Drifter') = Cardinality(Drifter) + 1
                /\ before # {} =>
                     /\ Cardinality(Drifter') = Cardinality(Drifter)
                     /\ \A old \in before, new \in after :
                          /\ new.ID = old.ID
                          /\ visa = old.ID
                          /\ new.access = user.access
                          /\ new.expire = user.expire
                          /\ new.handle = user.handle
                          /\ new.name = user.name
                          /\ new.description = user.description
                          /\ new.image = user.image]_vars

\* A repeat login has overwritten a row with another answer of the provider
\* than the one it was inserted with.
C5_Witness ==
    \E row \in Drifter :
        /\ row.access # row.refresh
        /\ row.image # row.refresh
        /\ idsDrawn > row.ID

\* The logins that got through: the state matched, the exchange and the upsert
\* succeeded.
LoggedIn(r) == r.pc = "done" /\ r.upserts = 1

\* C6: a successful callback is answered 302 to the referrer of the escort
\* token it came with, or to / when the token holds none, and sets a passport
\* whose visa is the ID of the row of the (platform, account) its exchange
\* returned.
C6_Success ==
    \A r \in Handled :
        LoggedIn(r) =>
            /\ Answered(r)
            /\ r.status = 302
            /\ r.location = Local(IF r.cookie[1].payload.referrer = Null THEN "/"
                                  ELSE r.cookie[1].payload.referrer[1])
            /\ r.cookies.passport.op = "set"
            /\ \E row \in Drifter :
                 /\ row.platform = r.user[1].platform
                 /\ row.account = r.user[1].account
                 /\ r.cookies.passport.tok[1].payload = [visa |-> row.ID]

\* A repeat login is answered: its visa is the ID the row had, not the one just
\* drawn, and the redirect goes to the page the flow started from.
C6_Witness ==
    \E r \in Handled :
        /\ LoggedIn(r)
        /\ r.cookies.passport.tok[1].payload.visa < idsDrawn
        /\ r.location = Local("/blog")

\* The escort cookie a request came with is one Token.check accepts.
CookieAccepted(r) ==
    IF r.cookie = Null THEN FALSE
    ELSE r.cookie[1].integrity = "ok" /\ r.cookie[1].age < EscortTTL

\* C7: a request with a non-empty error and no code is answered 302 to the
\* escort's referrer (to / without an escort or a referrer) for access_denied,
\* 500 for redirect_uri_mismatch and application_suspended, 401 otherwise.
C7_Errors ==
    \A r \in Handled :
        (~Truthy(r.code) /\ Truthy(r.error)) =>
            /\ Answered(r)
            /\ r.error[1] = "access_denied" =>
                 /\ r.status = 302
                 /\ r.location =
                      Local(IF CookieAccepted(r) /\ r.cookie[1].payload.referrer # Null
                            THEN r.cookie[1].payload.referrer[1] ELSE "/")
            /\ r.error[1] \in {"redirect_uri_mismatch", "application_suspended"} =>
                 r.status = 500
            /\ r.error[1] \notin {"access_denied", "redirect_uri_mismatch",
                                  "application_suspended"} =>
                 r.status = 401

\* A denied consent has been answered with a redirect to the page the flow
\* started from.
C7_Witness ==
    \E r \in Handled :
        /\ r.code = Null
        /\ r.error = Some("access_denied")
        /\ CookieAccepted(r)
        /\ r.status = 302
        /\ r.location = Local("/blog")

\* C8: an initiate request on a supported platform is answered 302 to the
\* platform's authorization URL and sets an escort whose state and
\* code_verifier were issued by no earlier initiate; the URL carries the state
\* of the escort (and the challenge of its code_verifier).
C8_Initiate ==
    [][\A s \in Slots :
        (/\ reqs[s] = Null
         /\ reqs'[s] # Null
         /\ ~Truthy(reqs'[s][1].code)
         /\ ~Truthy(reqs'[s][1].error)
         /\ reqs'[s][1].platform \in SupportedPlatforms) =>
            LET r == reqs'[s][1]
                escort == r.cookies.escort.tok[1].payload
            IN  /\ Answered(r)
                /\ r.status = 302
                /\ r.cookies.escort.op = "set"
                /\ \A p \in issued :
                     /\ escort.state # p[1]
                     /\ escort.code_verifier # p[2]
                /\ r.location.host = r.platform
                /\ r.location.state = escort.state
                /\ r.location.challenge = Challenge(escort.code_verifier)]_vars

\* A second initiate has been answered.
C8_Witness ==
    \E r \in Handled :
        /\ r.phase = "initiate"
        /\ r.status = 302
        /\ Cardinality(issued) = 2

\* C9: a request for an unsupported platform is rejected, in every phase, and
\* its handler issues no escort, issues no passport and writes no row.
C9_UnsupportedRejected ==
    \A r \in Handled :
        r.platform \notin SupportedPlatforms =>
            /\ r.cookies.escort.op # "set"
            /\ r.cookies.passport.op # "set"
            /\ r.upserts = 0
            /\ r.pc = "done" => (r.outcome = "thrown" \/ r.status \in {401, 500})

\* C10: a callback with a code that comes with an escort cookie which is
\* malformed, fails verification or is past its time-to-live is answered 401
\* like one without a cookie: the handler does not throw and does not call the
\* exchange, whatever the state parameter.
C10_InvalidEscort ==
    \A r \in Handled :
        (Truthy(r.code) /\ r.cookie # Null /\ ~CookieAccepted(r)) =>
            /\ Answered(r)
            /\ r.status = 401
            /\ r.exchanges = 0
            /\ r.upserts = 0
            /\ r.cookies.passport = Keep

\* A callback whose state parameter is the state of the expired escort it came
\* with has been answered 401.
C10_Witness ==
    \E r \in Handled :
        /\ r.code = Some("good")
        /\ r.cookie # Null
        /\ r.cookie[1].integrity = "ok"
        /\ r.cookie[1].age >= EscortTTL
        /\ r.state = Some(r.cookie[1].payload.state)
        /\ r.status = 401

\* C11: whenever the exchange of line 27 has been called, the verifier it was
\* given is the code_verifier of the escort cookie the request came with, the
\* state of that cookie is the request's state parameter, and the two were
\* issued together by one initiate; never the verifier of another flow.
C11_SameFlowVerifier ==
    \A r \in Handled :
        r.exchanges > 0 =>
            /\ r.cookie # Null
            /\ r.state = Some(r.cookie[1].payload.state)
            /\ r.verifier = Some(r.cookie[1].payload.code_verifier)
            /\ << r.state[1], r.verifier[1] >> \in issued

\* The exchange has been called while two flows had been started, so that
\* there was another flow's verifier to take.
C11_Witness ==
    \E r \in Handled :
        /\ r.exchanges = 1
        /\ r.verifier # Null
        /\ \E p \in issued : p[2] # r.verifier[1]

\* C12: no step of the endpoint removes a row of the account table or changes
\* a row's ID, platform or account, and every step other than the upsert of a
\* successful callback leaves the table as it was.
C12_RowsStable ==
    [][/\ \A row \in Drifter :
            \E new \in Drifter' :
                /\ new.ID = row.ID
                /\ new.platform = row.platform
                /\ new.account = row.account
       /\ (\A s \in Slots : ~Login(s)) => Drifter' = Drifter]_vars

\* A second successful callback for the account of the only row has been
\* through its upsert, and the row still has the ID of the first.
C12_Witness ==
    /\ idsDrawn = 2
    /\ Cardinality(Drifter) = 1
    /\ \A row \in Drifter : row.ID = Random16(0)

\* C13: the handler of a callback calls the exchange at most once; when the
\* exchange (or the construction of the platform's client) throws, the handler
\* ends there, having written no row and issued no passport, and the failed
\* request leaves the account table and the browser's passport as they were.
C13_FailFast ==
    [][\A s \in Slots :
        /\ reqs'[s] # Null => reqs'[s][1].exchanges <= 1
        /\ ValidateThrows(s) =>
             /\ reqs'[s][1].pc = "done"
             /\ reqs'[s][1].outcome = "thrown"
             /\ reqs'[s][1].upserts = 0
             /\ reqs'[s][1].cookies.passport = Keep
             /\ Drifter' = Drifter
        /\ (\E withCookies \in BOOLEAN : Fail(s, withCookies)) =>
             /\ Drifter' = Drifter
             /\ jar'[reqs[s][1].browser].passport = jar[reqs[s][1].browser].passport]_vars

\* The exchange of a callback has thrown while the table held a row and the
\* browser a passport.
C13_Witness ==
    \E r \in Handled :
        /\ r.phase = "callback"
        /\ r.exchanges = 1
        /\ r.outcome = "thrown"
        /\ Drifter # {}
        /\ jar[r.browser].passport # Null

\* C14: a handler sets a passport on its cookies object only in a callback
\* that went through its upsert and touches the passport in no other request,
\* and sets an escort only on initiate; the response to any request that did
\* not log in leaves the browser's passport as it was, and the response to a
\* callback never gives the browser an escort it did not hold.
C14_CookieFrame ==
    [][\A s \in Slots :
        /\ reqs'[s] # Null =>
             /\ reqs'[s][1].cookies.passport # Keep =>
                  /\ reqs'[s][1].phase = "callback"
                  /\ reqs'[s][1].upserts = 1
                  /\ reqs'[s][1].cookies.passport.op = "set"
             /\ reqs'[s][1].cookies.escort.op = "set" =>
                  reqs'[s][1].phase = "initiate"
        /\ (Respond(s) \/ \E withCookies \in BOOLEAN : Fail(s, withCookies)) =>
             /\ reqs[s][1].upserts = 0 =>
                  jar'[reqs[s][1].browser].passport = jar[reqs[s][1].browser].passport
             /\ IsCallback(reqs[s][1]) =>
                  jar'[reqs[s][1].browser].escort \in {Null, jar[reqs[s][1].browser].escort}]_vars

\* A callback with an error has been answered for a browser that holds a
\* passport.
C14_Witness ==
    \E r \in Handled :
        /\ r.phase = "error"
        /\ Answered(r)
        /\ r.cookies.passport = Keep
        /\ jar[r.browser].passport # Null

\* The phase the query parameters of a request select.
PhaseSelected(r) ==
    IF Truthy(r.code) THEN "callback"
    ELSE IF Truthy(r.error) THEN "error"
    ELSE "initiate"

\* C15: the phase a request runs is the one its query parameters select, a
\* non-empty code before a non-empty error and initiate without either, and
\* the request does the work of that phase only: the exchange, the upsert and
\* the passport belong to a callback with a code, the error statuses to a
\* callback with an error, the new escort and the provider's link to initiate.
C15_PhaseSelection ==
    \A r \in Handled :
        /\ r.phase = PhaseSelected(r)
        /\ r.phase = "callback" =>
             /\ r.cookies.escort.op # "set"
             /\ Answered(r) => (r.status = 401 \/ (r.status = 302 /\ r.upserts = 1))
        /\ r.phase = "error" =>
             /\ r.exchanges = 0 /\ r.upserts = 0
             /\ r.cookies = AfterRevoke(NoChanges)
             /\ Answered(r)
             /\ r.status = ErrorStatus(r.error[1])
        /\ r.phase = "initiate" =>
             /\ r.exchanges = 0 /\ r.upserts = 0
             /\ r.cookies.escort.op = "set"
             /\ r.cookies.passport = Keep
             /\ Answered(r) => (r.status = 302 /\ r.location.host = r.platform)

\* A request with both a code and an error has been handled as a callback
\* with a code, up to its passport.
C15_Witness ==
    \E r \in Handled :
        /\ Truthy(r.code)
        /\ Truthy(r.error)
        /\ r.upserts = 1
        /\ r.cookies.passport.op = "set"

\* A callback with a code that came with an unaltered escort cookie younger
\* than its time-to-live, and with the state of that cookie.
RoundTrip(r) ==
    /\ Truthy(r.code)
    /\ CookieAccepted(r)
    /\ r.state = Some(r.cookie[1].payload.state)

\* C16: a callback with a code that comes back with the escort cookie of its
\* initiate, unaltered and within its five minutes, and with that escort's
\* state, passes the check of line 24 and is never answered 401; when its
\* exchange has returned a user the handler goes on to the upsert, and it ends
\* answered 302 with a passport set.
C16_RoundTrip ==
    \A r \in Handled :
        RoundTrip(r) =>
            /\ r.phase = "callback"
            /\ r.status # 401
            /\ r.pc = "done" =>
                 \/ r.outcome = "thrown" /\ r.user = Null
                 \/ /\ Answered(r)
                    /\ r.user # Null
                    /\ r.upserts = 1
                    /\ r.status = 302
                    /\ r.cookies.passport.op = "set"
            /\ r.user # Null => r.pc \in {"upsert", "done"}

\* A callback that came back some minutes after its initiate, on the platform
\* the flow was started on, has been answered with a passport.
C16_Witness ==
    \E r \in Handled :
        /\ RoundTrip(r)
        /\ r.cookie[1].age > 0
        /\ r.platform \in SupportedPlatforms
        /\ Answered(r)
        /\ r.status = 302
        /\ r.cookies.passport.op = "set"

\* The request that arrives in slot s in this step gets past line 24.
PassesCsrf(s) ==
    /\ reqs[s] = Null
    /\ reqs'[s] # Null
    /\ reqs'[s][1].pc = "validate"

Passports ==
    {r.cookies.passport.tok[1] : r \in {h \in Handled : h.cookies.passport.op = "set"}}
    \cup {jar[b].passport[1] : b \in {c \in Browsers : jar[c].passport # Null}}

\* C18: the visa of every passport the endpoint has issued is the ID of a row
\* of the account table; none carries the ID drawn for an insert that ended
\* as an update.
C18_VisaExists ==
    \A passport \in Passports :
        \E row \in Drifter : row.ID = passport.payload.visa

\* A repeat login has set a passport: the ID drawn for its insert is in no
\* row, and its visa is the ID of the row it updated.
C18_Witness ==
    \E r \in Handled :
        /\ LoggedIn(r)
        /\ idsDrawn = 2
        /\ \A row \in Drifter : row.ID # Random16(1)
        /\ r.cookies.passport.tok[1].payload.visa = Random16(0)

\* C19: the upsert of a successful callback for a (platform, account) that has
\* a row leaves the row's refresh as it was, whatever refresh the exchange
\* returned, and sets its access and expire to what the exchange returned;
\* for a new pair the row gets the refresh the exchange returned.
C19_RefreshKept ==
    [][\A s \in Slots :
        Login(s) =>
            LET user == reqs[s][1].user[1]
                before == RowsOf(Drifter, user)
                after == RowsOf(Drifter', user)
            IN  /\ before = {} => \A new \in after : new.refresh = user.refresh
                /\ \A old \in before :
                     /\ after # {}
                     /\ \A new \in after :
                          /\ new.refresh = old.refresh
                          /\ new.access = user.access
                          /\ new.expire = user.expire]_vars

\* A repeat login for which the provider returned another refresh token than
\* the stored one has been through its upsert.
C19_Witness ==
    \E r \in Handled, row \in Drifter :
        /\ LoggedIn(r)
        /\ row.platform = r.user[1].platform
        /\ row.account = r.user[1].account
        /\ r.user[1].refresh # row.refresh
        /\ r.user[1].access = row.access

\* ------------------------------------------------------- rehypeFigure
\* The plugin of src/unnamed/part_000, which turns a paragraph that starts
\* with an image into a figure with a caption.

\* -------------------------------------------------------------- bounds
MaxTop == 2          \* children of the root
MaxChildren == 3     \* children of a top-level paragraph
MaxNested == 1       \* children of a paragraph inside a blockquote
MaxPasses == 2       \* runs of the transformer over one tree

\* A string is a sequence of characters.  A property value is a string or a
\* number, the number kept by its decimal digits.
Str(chars) == [kind |-> "string", text |-> chars]
Num(digits) == [kind |-> "number", text |-> digits]

\* String(value), line 20
String(value) == value.text

\* !value of a property, line 17: absent, the empty string and 0 are falsy.
Falsy(property) ==
    IF property = Null THEN TRUE
    ELSE IF property[1].kind = "number" THEN property[1].text = << "0" >>
    ELSE property[1].text = << >>

\* value.trim(), line 11
WhiteSpace == {" ", "\n"}
RECURSIVE TrimStart(_)
TrimStart(chars) ==
    IF chars = << >> THEN << >>
    ELSE IF Head(chars) \in WhiteSpace THEN TrimStart(Tail(chars))
    ELSE chars
RECURSIVE TrimEnd(_)
TrimEnd(chars) ==
    IF chars = << >> THEN << >>
    ELSE IF chars[Len(chars)] \in WhiteSpace
         THEN TrimEnd(SubSeq(chars, 1, Len(chars) - 1))
    ELSE chars
Trim(chars) == TrimEnd(TrimStart(chars))

\* hast nodes: the root, elements and texts, as records of one shape.
NoProperties == [src |-> Null, alt |-> Null, title |-> Null]
Text(value) ==
    [type |-> "text", tagName |-> "", properties |-> NoProperties,
     children |-> << >>, value |-> value]
Element(tagName, properties, children) ==
    [type |-> "element", tagName |-> tagName, properties |-> properties,
     children |-> children, value |-> << >>]
Root(children) ==
    [type |-> "root", tagName |-> "", properties |-> NoProperties,
     children |-> children, value |-> << >>]

\* h(selector, properties?, children?) of hastscript, lines 4 and 31: a new
\* element of that name with the properties given and the children given.
h(tagName, properties, children) == Element(tagName, properties, children)

\* The test of the filter of line 11.
NotBlank(child) == ~(child.type = "text" /\ Trim(child.value) = << >>)

\* A caption without the space after the alt text.
FigcaptionChildren_noSpace(altText, remainingChildren) ==
    << Text(altText) >> \o remainingChildren

\* Lines 25-29
FigcaptionChildren(altText, remainingChildren) ==
    IF Len(remainingChildren) > 0
    THEN << Text(altText), Text(<< " " >>) >> \o remainingChildren
    ELSE << Text(altText) >>

\* Lines 19-31: the paragraph made a figure.
Figure(node, children) ==
    LET imgElement == children[1]
        altText == String(imgElement.properties.alt[1])
        remainingChildren == SubSeq(children, 2, Len(children))
    IN  [node EXCEPT
            !.tagName = "figure",
            !.children = << h("img", imgElement.properties, << >>),
                            h("figcaption", NoProperties,
                              FigcaptionChildren(altText, remainingChildren)) >>]

\* A visitor that does not look at the parent.
Visitor_anyParent(node, parent) ==
    LET children == SelectSeq(node.children, NotBlank)
    IN  IF node.tagName # "p" THEN node
        ELSE IF Len(children) = 0 THEN node
        ELSE IF children[1].type # "element" \/ children[1].tagName # "img" THEN node
        ELSE IF Falsy(children[1].properties.src) \/ Falsy(children[1].properties.alt)
             THEN node
        ELSE Figure(node, children)

\* The visitor of lines 8-32, called for an element node with its parent.
Visitor(node, parent) ==
    LET children == SelectSeq(node.children, NotBlank)
    IN  IF node.tagName # "p" \/ parent.type # "root" THEN node
        ELSE IF Len(children) = 0 THEN node
        ELSE IF children[1].type # "element" \/ children[1].tagName # "img" THEN node
        ELSE IF Falsy(children[1].properties.src) \/ Falsy(children[1].properties.alt)
             THEN node
        ELSE Figure(node, children)

\* visit(tree, "element", visitor), line 8: the visitor is called for every
\* element, parents before children, and the walk goes on into the children
\* the node has after the call.
RECURSIVE visit(_, _)
visit(node, parent) ==
    LET visited == IF node.type = "element" THEN Visitor(node, parent) ELSE node
    IN  [visited EXCEPT
            !.children = [i \in 1..Len(visited.children) |->
                             visit(visited.children[i], visited)]]

\* The transformer the plugin returns, lines 7-33.
rehypeFigure(root) ==
    [root EXCEPT !.children = [i \in 1..Len(root.children) |->
                                  visit(root.children[i], root)]]

\* ------------------------------------------------------ the documents
Images ==
    {Element("img", properties, << >>) : properties \in
        {[src |-> Some(Str(<< "a" >>)), alt |-> Some(Str(<< "c" >>)),
          title |-> Some(Str(<< "t" >>))],
         [src |-> Some(Str(<< "a" >>)), alt |-> Some(Num(<< "7" >>)), title |-> Null],
         [src |-> Null, alt |-> Some(Str(<< "c" >>)), title |-> Null],
         [src |-> Some(Str(<< "a" >>)), alt |-> Some(Str(<< >>)), title |-> Null]}}

Texts == {Text(<< "\n" >>), Text(<< " ", "x" >>)}

Inline == Images \cup Texts \cup {Element("em", NoProperties, << Text(<< "x" >>) >>)}

\* The sequences over a set, up to a length.
SeqsUpTo(S, n) == UNION {[1..k -> S] : k \in 0..n}

Paragraphs(n) == {Element("p", NoProperties, children) : children \in SeqsUpTo(Inline, n)}

\* What the root holds: paragraphs, blockquotes with a paragraph inside, and
\* the line breaks between them.
Blocks ==
    Paragraphs(MaxChildren)
    \cup {Element("blockquote", NoProperties, << p >>) : p \in Paragraphs(MaxNested)}
    \cup {Text(<< "\n" >>)}

Trees == {Root(children) : children \in SeqsUpTo(Blocks, MaxTop)}

InitFigure ==
    /\ NoRequests
    /\ tree \in Trees
    /\ passes = 0

\* The transformer runs over the tree.
Transformer ==
    /\ passes < MaxPasses
    /\ tree' = rehypeFigure(tree)
    /\ passes' = passes + 1
    /\ UNCHANGED vars

NextFigure == Transformer

SpecFigure == InitFigure /\ [][NextFigure]_document

\* A text of nothing but whitespace.
Blank(child) ==
    /\ child.type = "text"
    /\ \A i \in 1..Len(child.value) : child.value[i] \in WhiteSpace

\* The children of a node that are not whitespace-only texts, in their order.
Kept(node) == SelectSeq(node.children, LAMBDA child : ~Blank(child))

\* A property that is there and is not the empty string.
NonEmpty(property) ==
    IF property = Null THEN FALSE ELSE property[1].text # << >>

\* A paragraph whose first child, whitespace-only texts aside, is an image with
\* a non-empty src and alt.
LeadingImage(node) ==
    /\ node.type = "element"
    /\ node.tagName = "p"
    /\ Kept(node) # << >>
    /\ Kept(node)[1].type = "element"
    /\ Kept(node)[1].tagName = "img"
    /\ NonEmpty(Kept(node)[1].properties.src)
    /\ NonEmpty(Kept(node)[1].properties.alt)

\* C20: the transformer turns every child of the root that is a paragraph
\* whose first child, whitespace-only texts aside, is an img with a non-empty
\* src and alt into a figure of exactly two children: an img with the
\* properties of that image, and a figcaption whose children are the alt text
\* alone when the paragraph has nothing else, and otherwise the alt text, a
\* text of one space and the paragraph's other children that are not
\* whitespace-only texts, in their order.
C20_Figure ==
    [][Transformer =>
        /\ Len(tree'.children) = Len(tree.children)
        /\ \A i \in 1..Len(tree.children) :
             LeadingImage(tree.children[i]) =>
                LET img == Kept(tree.children[i])[1]
                    rest == Tail(Kept(tree.children[i]))
                    alt == Text(img.properties.alt[1].text)
                    figure == tree'.children[i]
                IN  /\ figure.type = "element"
                    /\ figure.tagName = "figure"
                    /\ Len(figure.children) = 2
                    /\ figure.children[1].type = "element"
                    /\ figure.children[1].tagName = "img"
                    /\ figure.children[1].properties = img.properties
                    /\ figure.children[2].type = "element"
                    /\ figure.children[2].tagName = "figcaption"
                    /\ figure.children[2].children =
                         IF rest = << >> THEN << alt >>
                         ELSE << alt, Text(<< " " >>) >> \o rest]_document

\* The transformer has made a figure of a paragraph with two more children
\* after its image, and another of a paragraph of an image alone.
C20_Witness ==
    /\ passes = 1
    /\ \E i \in 1..Len(tree.children) :
         /\ tree.children[i].tagName = "figure"
         /\ Len(tree.children[i].children[2].children) = 4
         /\ tree.children[i].children[2].children[3].type = "text"
         /\ tree.children[i].children[2].children[4].tagName = "em"
    /\ \E i \in 1..Len(tree.children) :
         /\ tree.children[i].tagName = "figure"
         /\ Len(tree.children[i].children[2].children) = 1

\* C21: the transformer leaves every child of the root as it was, tag name,
\* children and all below them, unless it is a paragraph whose first child,
\* whitespace-only texts aside, is an img with a non-empty src and alt: so a
\* paragraph inside another element, a paragraph of nothing but whitespace, a
\* paragraph that starts with something else and a paragraph whose leading img
\* has no src or no alt.  A run of the transformer over a tree it has already
\* been over changes nothing.
C21_Unchanged ==
    [][Transformer =>
        /\ Len(tree'.children) = Len(tree.children)
        /\ \A i \in 1..Len(tree.children) :
             ~LeadingImage(tree.children[i]) => tree'.children[i] = tree.children[i]
        /\ passes >= 1 => tree' = tree]_document

\* The transformer has been twice over a tree with a figure it made and a
\* blockquote whose paragraph starts with an image that has src and alt.
C21_Witness ==
    /\ passes = 2
    /\ \E i \in 1..Len(tree.children) : tree.children[i].tagName = "figure"
    /\ \E i \in 1..Len(tree.children) :
         /\ tree.children[i].tagName = "blockquote"
         /\ LeadingImage(tree.children[i].children[1])

====
